---- MODULE Spec2Model ----
(***************************************************************************)
(* A model of analysis/compare.py: the parser of "final ... live values    *)
(* at end of each block" sections of a compiler debug dump (parse_file),   *)
(* the comparison of two parsed dumps (compare_sections) and the driver    *)
(* (main).                                                                 *)
(*                                                                         *)
(* Text is modelled as text: a Python str is a sequence of one-character   *)
(* strings, and the four regular expressions of the program are matchers   *)
(* over such sequences.  Optional[T] is a sequence of length 0 (None) or 1.*)
(***************************************************************************)
EXTENDS Integers, Sequences, FiniteSets, TLC

(***************************************************************************)
(* Python values                                                           *)
(***************************************************************************)
None == <<>>

Some(x) == <<x>>

Range(s) == {s[i] : i \in 1..Len(s)}

Take(s, n) == SubSeq(s, 1, n)

Drop(s, n) == SubSeq(s, n + 1, Len(s))

StartsWith(s, p) == Len(s) >= Len(p) /\ SubSeq(s, 1, Len(p)) = p

(***************************************************************************)
(* Characters.  Ascii lists the characters the dumps of this model use, in *)
(* code point order, which is the order Python compares str by.            *)
(***************************************************************************)
Ascii ==
  << "\t", " ", "(", ")", ",", "-",
     "0", "1", "2", "3", "4", "5", "6", "7", "8", "9", ":", "=",
     "A", "B", "C", "D", "E", "F", "G", "H", "I", "J", "K", "L", "M",
     "N", "O", "P", "Q", "R", "S", "T", "U", "V", "W", "X", "Y", "Z",
     "[", "]", "_",
     "a", "b", "c", "d", "e", "f", "g", "h", "i", "j", "k", "l", "m",
     "n", "o", "p", "q", "r", "s", "t", "u", "v", "w", "x", "y", "z" >>

Ord(c) == CHOOSE i \in 1..Len(Ascii) : Ascii[i] = c

DigitChars == <<"0", "1", "2", "3", "4", "5", "6", "7", "8", "9">>

Digit == Range(DigitChars)

Space == {" ", "\t"}

Word == {Ascii[i] : i \in 19..44} \cup {Ascii[i] : i \in 48..73} \cup Digit \cup {"_"}

RECURSIVE SpanIn(_, _)
SpanIn(s, C) == IF s # <<>> /\ s[1] \in C THEN 1 + SpanIn(Tail(s), C) ELSE 0

RECURSIVE SpanNotIn(_, _)
SpanNotIn(s, C) == IF s # <<>> /\ s[1] \notin C THEN 1 + SpanNotIn(Tail(s), C) ELSE 0

LStrip(s) == Drop(s, SpanIn(s, Space))

RECURSIVE RStrip(_)
RStrip(s) ==
  IF s # <<>> /\ s[Len(s)] \in Space THEN RStrip(Take(s, Len(s) - 1)) ELSE s

Strip(s) == RStrip(LStrip(s))

RECURSIVE Fields(_, _)
Fields(s, Seps) ==
  LET t == Drop(s, SpanIn(s, Seps))
      n == SpanNotIn(t, Seps)
  IN  IF t = <<>> THEN <<>> ELSE <<Take(t, n)>> \o Fields(Drop(t, n), Seps)

str_split(s) == Fields(s, Space)

DigitVal(c) == (CHOOSE i \in 1..10 : DigitChars[i] = c) - 1

RECURSIVE int(_)
int(s) ==
  IF s = <<>> THEN 0 ELSE 10 * int(Take(s, Len(s) - 1)) + DigitVal(s[Len(s)])

\* str(n), as an f-string writes a number
RECURSIVE Decimal(_)
Decimal(n) ==
  IF n < 10 THEN <<DigitChars[n + 1]>>
  ELSE Decimal(n \div 10) \o <<DigitChars[(n % 10) + 1]>>

RECURSIVE StrLess(_, _)
StrLess(a, b) ==
  IF b = <<>> THEN FALSE
  ELSE IF a = <<>> THEN TRUE
  ELSE IF a[1] = b[1] THEN StrLess(Tail(a), Tail(b))
  ELSE Ord(a[1]) < Ord(b[1])

RECURSIVE InsertSorted(_, _)
InsertSorted(x, s) ==
  IF s = <<>> THEN <<x>>
  ELSE IF StrLess(x, s[1]) THEN <<x>> \o s
  ELSE <<s[1]>> \o InsertSorted(x, Tail(s))

RECURSIVE sorted(_)
sorted(s) == IF s = <<>> THEN <<>> ELSE InsertSorted(s[1], sorted(Tail(s)))

RECURSIVE sorted_set(_)
sorted_set(S) ==
  IF S = {} THEN <<>>
  ELSE LET m == CHOOSE x \in S : \A y \in S \ {x} : StrLess(x, y)
       IN  <<m>> \o sorted_set(S \ {m})

\* faulty variant: block ids are sorted as text, b10 before b2
sorted_ints_as_text(S) ==
  LET texts == sorted_set({Decimal(x) : x \in S})
  IN  [i \in 1..Len(texts) |-> int(texts[i])]

RECURSIVE sorted_ints(_)
sorted_ints(S) ==
  IF S = {} THEN <<>>
  ELSE LET m == CHOOSE x \in S : \A y \in S : x <= y
       IN  <<m>> \o sorted_ints(S \ {m})

(***************************************************************************)
(* The regular expressions.  A match is Some(record of its groups).        *)
(***************************************************************************)
FINAL == <<"f", "i", "n", "a", "l">>

LIVE ==
  << "l", "i", "v", "e", " ", "v", "a", "l", "u", "e", "s", " ", "a", "t", " ",
     "e", "n", "d", " ", "o", "f", " ", "e", "a", "c", "h", " ",
     "b", "l", "o", "c", "k", ":" >>

BEGIN ==
  << "B", "e", "g", "i", "n", " ", "p", "r", "o", "c", "e", "s", "s", "i", "n", "g",
     " ", "b", "l", "o", "c", "k" >>

AVOID == <<"a", "v", "o", "i", "d", "=">>

\* faulty variant: white space is skipped before "final"
SECTION_RE_indented(line0) ==
  LET line == LStrip(line0) IN
  IF ~StartsWith(line, FINAL) THEN None
  ELSE
    LET r0 == Drop(line, Len(FINAL))
        g == LStrip(r0)
        dlen == IF g = <<>> THEN 0 ELSE SpanNotIn(Tail(g), {")"})
        grp == g # <<>> /\ g[1] = "(" /\ dlen < Len(g) - 1
        desc == IF grp THEN Some(SubSeq(g, 2, dlen + 1)) ELSE None
        r1 == IF grp THEN Drop(g, dlen + 2) ELSE r0
    IN  IF r1 = <<>> \/ r1[1] # ":" THEN None
        ELSE
          LET r2 == LStrip(Tail(r1))
          IN  IF ~StartsWith(r2, LIVE) THEN None
              ELSE
                LET r3 == Drop(r2, Len(LIVE))
                    f == Strip(r3)
                IN  IF r3 = <<>> THEN None
                    ELSE Some([desc |-> desc,
                               func |-> IF f = <<>> THEN <<r3[Len(r3)]>> ELSE f])

\* ^final(?:\s*\((?P<desc>[^)]*)\))?:\s*live values at end of each block:\s*(?P<func>.+?)\s*$
SECTION_RE(line) ==
  IF ~StartsWith(line, FINAL) THEN None
  ELSE
    LET r0 == Drop(line, Len(FINAL))
        g == LStrip(r0)
        dlen == IF g = <<>> THEN 0 ELSE SpanNotIn(Tail(g), {")"})
        grp == g # <<>> /\ g[1] = "(" /\ dlen < Len(g) - 1
        desc == IF grp THEN Some(SubSeq(g, 2, dlen + 1)) ELSE None
        r1 == IF grp THEN Drop(g, dlen + 2) ELSE r0
    IN  IF r1 = <<>> \/ r1[1] # ":" THEN None
        ELSE
          LET r2 == LStrip(Tail(r1))
          IN  IF ~StartsWith(r2, LIVE) THEN None
              ELSE
                LET r3 == Drop(r2, Len(LIVE))
                    f == Strip(r3)
                IN  IF r3 = <<>> THEN None
                    ELSE Some([desc |-> desc,
                               func |-> IF f = <<>> THEN <<r3[Len(r3)]>> ELSE f])

\* ^\s*b(?P<bid>\d+):\s*(?P<body>.*)$
BLOCK_RE(line) ==
  LET s == LStrip(line)
      d == IF s = <<>> THEN 0 ELSE SpanIn(Tail(s), Digit)
      r == Drop(s, 1 + d)
  IN  IF s = <<>> \/ s[1] # "b" \/ d = 0 \/ r = <<>> \/ r[1] # ":" THEN None
      ELSE Some([bid |-> SubSeq(s, 2, d + 1), body |-> LStrip(Tail(r))])

\* \bavoid=(?P<avoid>.+?)\s*$  (search: the leftmost match; start is 0-based)
AvoidAt(body, p) ==
  /\ p + Len(AVOID) <= Len(body)
  /\ SubSeq(body, p, p + Len(AVOID) - 1) = AVOID
  /\ (p = 1 \/ body[p - 1] \notin Word)

\* the leftmost position at or after p where the pattern starts, or 0
AvoidFrom(body, p) ==
  LET starts == {q \in p..Len(body) : body[q] = AVOID[1] /\ AvoidAt(body, q)}
  IN  IF starts = {} THEN 0 ELSE CHOOSE q \in starts : \A r \in starts : q <= r

AVOID_RE(body) ==
  LET p == AvoidFrom(body, 1)
      rest == Drop(body, p + Len(AVOID) - 1)
  IN  IF p = 0 THEN None
      ELSE Some([start |-> p - 1,
                 avoid |-> IF RStrip(rest) = <<>> THEN <<rest[1]>> ELSE RStrip(rest)])

\* ^(?P<v>v\d+)\((?P<n>\d+)\)(?:\[(?P<regs>[^\]]+)\])?$
VAR_RE(tok) ==
  LET d1 == IF tok = <<>> THEN 0 ELSE SpanIn(Tail(tok), Digit)
      r1 == Drop(tok, 1 + d1)
      d2 == IF r1 = <<>> THEN 0 ELSE SpanIn(Tail(r1), Digit)
      r2 == Drop(r1, 1 + d2)
      r3 == Drop(r2, 1)
      inner == SubSeq(r3, 2, Len(r3) - 1)
  IN  IF \/ tok = <<>> \/ tok[1] # "v" \/ d1 = 0
         \/ r1 = <<>> \/ r1[1] # "(" \/ d2 = 0
         \/ r2 = <<>> \/ r2[1] # ")"
      THEN None
      ELSE IF r3 = <<>>
      THEN Some([v |-> Take(tok, 1 + d1), n |-> SubSeq(r1, 2, d2 + 1), regs |-> None])
      ELSE IF /\ Len(r3) >= 3 /\ r3[1] = "[" /\ r3[Len(r3)] = "]"
              /\ "]" \notin Range(inner)
      THEN Some([v |-> Take(tok, 1 + d1), n |-> SubSeq(r1, 2, d2 + 1),
                 regs |-> Some(inner)])
      ELSE None

(***************************************************************************)
(* The data model.  A dict is a function; Put is d[k] = v.                 *)
(***************************************************************************)
Put(d, k, v) == [x \in (DOMAIN d) \cup {k} |-> IF x = k THEN v ELSE d[x]]

BlockState(vars, avoid) == [vars |-> vars, avoid |-> avoid]

Section(desc, header_line, blocks) ==
  [desc |-> desc, header_line |-> header_line, blocks |-> blocks]

\* A desc is truthy when it is neither None nor the empty str.
Truthy(desc) == desc # None /\ desc[1] # <<>>

\* faulty variant: the registers are kept in the order written
split_regs_unsorted(regs_str) == Fields(Strip(regs_str), Space \cup {","})

split_regs(regs_str) == sorted(Fields(Strip(regs_str), Space \cup {","}))

(***************************************************************************)
(* parse_file                                                              *)
(***************************************************************************)
\* faulty variant: a recurring header starts the Section over
ensure_fresh(sections, func, desc, header_line) ==
  Put(sections, func, Section(desc, header_line, <<>>))

\* faulty variant: an empty annotation counts as no description
ensure_filling_empty(sections, func, desc, header_line) ==
  IF func \notin DOMAIN sections
  THEN Put(sections, func, Section(desc, header_line, <<>>))
  ELSE IF ~Truthy(sections[func].desc) /\ Truthy(desc)
  THEN [sections EXCEPT ![func].desc = desc]
  ELSE sections

ensure(sections, func, desc, header_line) ==
  IF func \notin DOMAIN sections
  THEN Put(sections, func, Section(desc, header_line, <<>>))
  ELSE IF sections[func].desc = None /\ Truthy(desc)
  THEN [sections EXCEPT ![func].desc = desc]
  ELSE sections

\* faulty variant: repeated avoid tokens are kept
avoid_of_repeated(mavoid) ==
  IF mavoid = None THEN <<>>
  ELSE sorted(str_split(Strip(mavoid[1].avoid)))

\* avoid = tuple(sorted(set(toks)))
avoid_of(mavoid) ==
  IF mavoid = None THEN <<>>
  ELSE sorted_set(Range(str_split(Strip(mavoid[1].avoid))))

\* faulty variant: the avoid clause stays in the body
body_before_whole(body, mavoid) == body

\* body = body[:mavoid.start()].strip()
body_before(body, mavoid) ==
  IF mavoid = None THEN body ELSE Strip(Take(body, mavoid[1].start))

\* the value "vars_map[vname] = (n, regs)" stores for a matched token
var_entry(vm) ==
  << int(vm[1].n), split_regs(IF vm[1].regs = None THEN <<>> ELSE vm[1].regs[1]) >>

\* faulty variant: a token without brackets stores no variable
vars_of_bracketed(toks) ==
  LET matched == {i \in 1..Len(toks) :
                    VAR_RE(toks[i]) # None /\ VAR_RE(toks[i])[1].regs # None}
      vname(i) == VAR_RE(toks[i])[1].v
      last(v) == CHOOSE i \in matched :
                   vname(i) = v /\ \A j \in matched : vname(j) = v => j <= i
  IN  [v \in {vname(i) : i \in matched} |-> var_entry(VAR_RE(toks[last(v)]))]

\* the loop over body.split(): every matched token assigns vars_map[vname], so
\* a name ends up with the value of the last token that carries it
vars_of(toks) ==
  LET matched == {i \in 1..Len(toks) : VAR_RE(toks[i]) # None}
      vname(i) == VAR_RE(toks[i])[1].v
      last(v) == CHOOSE i \in matched :
                   vname(i) = v /\ \A j \in matched : vname(j) = v => j <= i
  IN  [v \in {vname(i) : i \in matched} |-> var_entry(VAR_RE(toks[last(v)]))]

\* The BlockState a block-summary line's body decodes to.
decode_body(group_body) ==
  LET body == Strip(group_body)
      mavoid == AVOID_RE(body)
  IN  BlockState(vars_of(str_split(body_before(body, mavoid))), avoid_of(mavoid))

\* faulty variant: a repeated block id adds to the block already stored
store_block_merged(blocks, bid, state) ==
  IF bid \in DOMAIN blocks
  THEN Put(blocks, bid,
           BlockState(state.vars @@ blocks[bid].vars,
                      sorted_set(Range(state.avoid) \cup Range(blocks[bid].avoid))))
  ELSE Put(blocks, bid, state)

store_block(blocks, bid, state) == Put(blocks, bid, state)

\* faulty variant: the current function survives the end of its section
end_section_kept(st) == st

\* "Begin processing block": the current function is cleared
end_section(st) ==
  [st EXCEPT !.cur_func = None, !.cur_desc = None, !.cur_header = None]

ParserInit ==
  [sections |-> <<>>, cur_func |-> None, cur_desc |-> None, cur_header |-> None]

\* faulty variant: a header read while a section is open does not change the
\* current function
ParseLine_first_open(st, line) ==
  LET msec == SECTION_RE(line)
      mb == BLOCK_RE(line)
  IN  IF msec # None
      THEN LET func == Strip(msec[1].func)
           IN  [sections |-> ensure(st.sections, func, msec[1].desc, line),
                cur_func |-> IF st.cur_func = None THEN Some(func) ELSE st.cur_func,
                cur_desc |-> msec[1].desc,
                cur_header |-> Some(line)]
      ELSE IF st.cur_func = None THEN st
      ELSE IF StartsWith(line, BEGIN)
      THEN end_section(st)
      ELSE IF mb = None THEN st
      ELSE [st EXCEPT !.sections[st.cur_func[1]].blocks =
                        store_block(@, int(mb[1].bid), decode_body(mb[1].body))]

\* One iteration of "for raw in f", on the line without its newline.
ParseLine(st, line) ==
  LET msec == SECTION_RE(line)
      mb == BLOCK_RE(line)
  IN  IF msec # None
      THEN LET func == Strip(msec[1].func)
           IN  [sections |-> ensure(st.sections, func, msec[1].desc, line),
                cur_func |-> Some(func),
                cur_desc |-> msec[1].desc,
                cur_header |-> Some(line)]
      ELSE IF st.cur_func = None THEN st
      ELSE IF StartsWith(line, BEGIN)
      THEN end_section(st)
      ELSE IF mb = None THEN st
      ELSE [st EXCEPT !.sections[st.cur_func[1]].blocks =
                        store_block(@, int(mb[1].bid), decode_body(mb[1].body))]

RECURSIVE parse_from(_, _)
parse_from(st, lines) ==
  IF lines = <<>> THEN st ELSE parse_from(ParseLine(st, lines[1]), Tail(lines))

parse_file(lines) == parse_from(ParserInit, lines).sections

(***************************************************************************)
(* Labels.  A path is the record of its pathlib parts.                     *)
(***************************************************************************)
DEBUG_ == <<"d", "e", "b", "u", "g", "_">>

\* Path(path).stem.removeprefix("debug_")
file_label(path) ==
  IF StartsWith(path.stem, DEBUG_) THEN Drop(path.stem, Len(DEBUG_)) ELSE path.stem

section_label(path, desc) ==
  IF Truthy(desc) /\ Strip(desc[1]) # <<>> THEN Strip(desc[1]) ELSE file_label(path)

\* f"{left} - {right}", kept as the pair of its two labels
comparison_header(left_path, left_desc, right_path, right_desc) ==
  <<section_label(left_path, left_desc), section_label(right_path, right_desc)>>

(***************************************************************************)
(* compare_sections.  What it prints is a sequence of lines, each line the *)
(* record of the values its f-string shows.                                *)
(***************************************************************************)
VARS_ONLY_CAP == 50

\* s[:n], as Python slices
Slice(s, n) ==
  IF n >= 0 THEN Take(s, IF n < Len(s) THEN n ELSE Len(s))
  ELSE Take(s, IF Len(s) + n > 0 THEN Len(s) + n ELSE 0)

\* faulty variant: the other side's names are not subtracted
only_in_unsubtracted(X, Y) == sorted_set(X)

\* sorted(X - Y), for names of sections and of variables
only_in(X, Y) == sorted_set(X \ Y)

\* "Sections only in <label>:", one "  - <name>" per name, and an empty line
only_sections(label, names) ==
  IF names = <<>> THEN <<>>
  ELSE <<[k |-> "sections_only", label |-> label]>>
       \o [i \in 1..Len(names) |-> [k |-> "section", name |-> names[i]]]
       \o <<[k |-> "blank"]>>

blocks_only(label, bids) ==
  IF bids = <<>> THEN <<>>
  ELSE <<[k |-> "blocks_only", label |-> label, bids |-> bids]>>

ELLIPSIS == <<" ", ".", ".", ".">>

\* faulty variant: the suffix is printed from 50 names on
vars_only_early_suffix(label, vs) ==
  IF vs = <<>> THEN <<>>
  ELSE <<[k |-> "vars_only", label |-> label, vars |-> Slice(vs, VARS_ONLY_CAP),
          suffix |-> IF Len(vs) >= VARS_ONLY_CAP THEN ELLIPSIS ELSE <<>>]>>

\* "vars only in <label>: " and head: the first 50 names and " ..." if more
vars_only(label, vs) ==
  IF vs = <<>> THEN <<>>
  ELSE <<[k |-> "vars_only", label |-> label, vars |-> Slice(vs, VARS_ONLY_CAP),
          suffix |-> IF Len(vs) > VARS_ONLY_CAP THEN ELLIPSIS ELSE <<>>]>>

\* faulty variant: only the registers are compared, not the weight
RECURSIVE v_changed_by_registers(_, _, _)
v_changed_by_registers(vs, a, b) ==
  IF vs = <<>> THEN <<>>
  ELSE (IF a.vars[vs[1]][2] # b.vars[vs[1]][2]
        THEN << <<vs[1], a.vars[vs[1]], b.vars[vs[1]]>> >>
        ELSE <<>>)
       \o v_changed_by_registers(Tail(vs), a, b)

\* the loop "for v in sorted(vA & vB)" that fills v_changed
RECURSIVE v_changed(_, _, _)
v_changed(vs, a, b) ==
  IF vs = <<>> THEN <<>>
  ELSE (IF a.vars[vs[1]] # b.vars[vs[1]]
        THEN << <<vs[1], a.vars[vs[1]], b.vars[vs[1]]>> >>
        ELSE <<>>)
       \o v_changed(Tail(vs), a, b)

\* faulty variant: the avoid sets are not compared
avoid_ignored(a, b) == FALSE

avoid_changed(a, b) == a.avoid # b.avoid

\* faulty variant: the elision line is printed from N = max on
changed_lines_early_elision(changed, max_var_diffs_per_block) ==
  LET shown == Slice(changed, max_var_diffs_per_block)
  IN  [i \in 1..Len(shown) |->
         [k |-> "changed", v |-> shown[i][1], a |-> shown[i][2], b |-> shown[i][3]]]
      \o (IF Len(changed) >= max_var_diffs_per_block
          THEN <<[k |-> "elided", count |-> Len(changed) - max_var_diffs_per_block]>>
          ELSE <<>>)

changed_lines(changed, max_var_diffs_per_block) ==
  LET shown == Slice(changed, max_var_diffs_per_block)
  IN  [i \in 1..Len(shown) |->
         [k |-> "changed", v |-> shown[i][1], a |-> shown[i][2], b |-> shown[i][3]]]
      \o (IF Len(changed) > max_var_diffs_per_block
          THEN <<[k |-> "elided", count |-> Len(changed) - max_var_diffs_per_block]>>
          ELSE <<>>)

\* the body of "for bid in b_common": the lines it appends to func_lines
block_lines(bid, a, b, labelA, labelB, max_var_diffs_per_block) ==
  LET vA == DOMAIN a.vars
      vB == DOMAIN b.vars
      v_onlyA == only_in(vA, vB)
      v_onlyB == only_in(vB, vA)
      changed == v_changed(sorted_set(vA \cap vB), a, b)
  IN  IF v_onlyA # <<>> \/ v_onlyB # <<>> \/ changed # <<>> \/ avoid_changed(a, b)
      THEN <<[k |-> "blank"], [k |-> "block", bid |-> bid]>>
           \o vars_only(labelA, v_onlyA)
           \o vars_only(labelB, v_onlyB)
           \o changed_lines(changed, max_var_diffs_per_block)
           \o (IF avoid_changed(a, b)
               THEN <<[k |-> "avoid", a |-> a.avoid, b |-> b.avoid]>>
               ELSE <<>>)
      ELSE <<>>

RECURSIVE common_block_lines(_, _, _, _, _, _)
common_block_lines(bids, blocksA, blocksB, labelA, labelB, max_var_diffs_per_block) ==
  IF bids = <<>> THEN <<>>
  ELSE block_lines(bids[1], blocksA[bids[1]], blocksB[bids[1]],
                   labelA, labelB, max_var_diffs_per_block)
       \o common_block_lines(Tail(bids), blocksA, blocksB,
                             labelA, labelB, max_var_diffs_per_block)

\* the body of "for func in common": func_lines
func_lines(secA, secB, labelA, labelB, max_var_diffs_per_block) ==
  LET bidsA == DOMAIN secA.blocks
      bidsB == DOMAIN secB.blocks
  IN  blocks_only(labelA, sorted_ints(bidsA \ bidsB))
      \o blocks_only(labelB, sorted_ints(bidsB \ bidsA))
      \o common_block_lines(sorted_ints(bidsA \cap bidsB), secA.blocks, secB.blocks,
                            labelA, labelB, max_var_diffs_per_block)

\* faulty variant: every common function is printed, also without lines
func_report_always(func, hdr, lines) ==
  <<[k |-> "func", func |-> func, hdr |-> hdr]>> \o lines \o <<[k |-> "blank"]>>

\* func_has_diff is set exactly where a line is appended to func_lines
func_report(func, hdr, lines) ==
  IF lines # <<>>
  THEN <<[k |-> "func", func |-> func, hdr |-> hdr]>> \o lines \o <<[k |-> "blank"]>>
  ELSE <<>>

RECURSIVE common_report(_, _, _, _, _, _)
common_report(funcs, pathA, A, pathB, B, max_var_diffs_per_block) ==
  IF funcs = <<>> THEN <<>>
  ELSE LET func == funcs[1]
       IN  func_report(func,
                       comparison_header(pathA, A[func].desc, pathB, B[func].desc),
                       func_lines(A[func], B[func], file_label(pathA), file_label(pathB),
                                  max_var_diffs_per_block))
           \o common_report(Tail(funcs), pathA, A, pathB, B, max_var_diffs_per_block)

\* What compare_sections prints (out) and returns (ret).
compare_sections(pathA, A, pathB, B, max_var_diffs_per_block) ==
  LET keysA == DOMAIN A
      keysB == DOMAIN B
      printed == only_sections(file_label(pathA), only_in(keysA, keysB))
                 \o only_sections(file_label(pathB), only_in(keysB, keysA))
                 \o common_report(sorted_set(keysA \cap keysB), pathA, A, pathB, B,
                                  max_var_diffs_per_block)
      diffs_found == printed # <<>>
  IN  [out |-> IF diffs_found THEN printed ELSE <<[k |-> "nodiff"]>>,
       ret |-> IF diffs_found THEN 1 ELSE 0]

(***************************************************************************)
(* The dump format (the module docstring).  The files of the model are     *)
(* written from line descriptions:                                         *)
(*   Hdr:   <lead>final[ (<desc>)]: live values at end of each block: <func>*)
(*   Blk:   b<bid>: <token> <token> ...[ avoid=<word> <word> ...]          *)
(*   End:   Begin processing block                                         *)
(*   Other: a line of some other phase of the dump                         *)
(* and a token is v<v>(<n>)[<reg><sep><reg>...].  Text is what is in the   *)
(* file; the parser sees only Text.                                        *)
(***************************************************************************)
Hdr(lead, desc, func) == [k |-> "hdr", lead |-> lead, desc |-> desc, func |-> func]

Blk(bid, toks, avoid) == [k |-> "blk", bid |-> bid, toks |-> toks, avoid |-> avoid]

End == [k |-> "end"]

Other == [k |-> "other"]

Tok(v, n, regs, sep) == [v |-> v, n |-> n, regs |-> regs, sep |-> sep]

RECURSIVE Join(_, _)
Join(ws, sep) ==
  IF ws = <<>> THEN <<>>
  ELSE IF Len(ws) = 1 THEN ws[1]
  ELSE ws[1] \o sep \o Join(Tail(ws), sep)

TokText(t) ==
  <<"v">> \o t.v \o <<"(">> \o t.n \o <<")">>
  \o (IF t.regs = None THEN <<>> ELSE <<"[">> \o Join(t.regs[1], t.sep) \o <<"]">>)

NOISE == <<"r", "e", "g", "a", "l", "l", "o", "c", ":", " ", "b", "1">>

Text(l) ==
  IF l.k = "hdr"
  THEN l.lead \o FINAL
       \o (IF l.desc = None THEN <<>> ELSE <<" ", "(">> \o l.desc[1] \o <<")">>)
       \o <<":", " ">> \o LIVE \o <<" ">> \o l.func
  ELSE IF l.k = "blk"
  THEN <<"b">> \o l.bid \o <<":">>
       \o Join([i \in 1..Len(l.toks) |-> <<" ">> \o TokText(l.toks[i])], <<>>)
       \o (IF l.avoid = None THEN <<>>
           ELSE <<" ">> \o AVOID \o Join(l.avoid[1], <<" ">>))
  ELSE IF l.k = "end" THEN BEGIN
  ELSE NOISE

FileText(src) == [i \in 1..Len(src) |-> Text(src[i])]

(***************************************************************************)
(* Bounds and the inputs of the model                                      *)
(***************************************************************************)
\* parse_file is followed over files of at most MaxLines lines
MaxLines == 4

\* main compares multi-section files of at most MaxFileLines lines
MaxFileLines == 3

\* --max-var-diffs-per-block ranges over 0..MaxCap
MaxCap == 2

foo == <<"f", "o", "o">>

bar == <<"b", "a", "r">>

SCC == <<"S", "C", "C">>

PASS2 == <<"2", "-", "p", "a", "s", "s">>

R0 == <<"R", "0">>

R1 == <<"R", "1">>

R2 == <<"R", "2">>

COMMA == <<",">>

BLANK == <<" ">>

V(v, n) == Tok(v, n, None, COMMA)

VR(v, n, regs, sep) == Tok(v, n, Some(regs), sep)

\* The lines parse_file is followed on, one at a time.
ParseLines ==
  { Hdr(<<>>, None, foo), Hdr(<<>>, Some(<<>>), foo), Hdr(<<>>, Some(SCC), foo),
    Hdr(<<>>, Some(PASS2), foo), Hdr(<<>>, None, bar),
    Hdr(<<" ", "\t">>, None, bar), End, Other,
    Blk(<<"1">>, <<V(<<"2">>, <<"1">>)>>, Some(<<R1>>)),
    Blk(<<"1">>, <<VR(<<"1", "0">>, <<"2">>, <<R0>>, COMMA)>>, None),
    Blk(<<"2">>, <<VR(<<"1", "0">>, <<"2">>, <<R0>>, COMMA)>>, None) }

\* a section re-opened: parse_file is followed on up to MaxSectionLines of
\* SectionLines, the headers of two functions, the end of a section and blocks
MaxSectionLines == 5

SectionLines ==
  { Hdr(<<>>, None, foo), Hdr(<<>>, None, bar), End,
    Blk(<<"1">>, <<V(<<"2">>, <<"1">>)>>, Some(<<R1>>)),
    Blk(<<"1">>, <<VR(<<"1", "0">>, <<"2">>, <<R0>>, COMMA)>>, None),
    Blk(<<"2">>, <<VR(<<"1", "0">>, <<"2">>, <<R0>>, COMMA)>>, None) }

\* One-block files: a header and a block line over these tokens and clauses.
FirstToks ==
  { V(<<"2">>, <<"1">>), V(<<"2">>, <<"2">>), V(<<"2">>, <<"0", "1">>),
    VR(<<"2">>, <<"1">>, <<>>, COMMA),
    VR(<<"2">>, <<"1">>, <<R0>>, COMMA), VR(<<"2">>, <<"1">>, <<R0, R0>>, COMMA),
    VR(<<"2">>, <<"1">>, <<R0, R1>>, COMMA), VR(<<"2">>, <<"1">>, <<R1, R0>>, COMMA),
    VR(<<"2">>, <<"1">>, <<R0, R1>>, BLANK), VR(<<"2">>, <<"1">>, <<R1, R0>>, BLANK),
    VR(<<"2">>, <<"2">>, <<R0, R1>>, COMMA) }

SecondToks == { V(<<"1", "0">>, <<"1">>), V(<<"1", "0">>, <<"2">>), V(<<"2">>, <<"2">>) }

TokSeqs ==
  {<<>>} \cup {<<t>> : t \in FirstToks \cup SecondToks}
  \cup {<<t, u>> : t \in FirstToks, u \in SecondToks}

\* Token sequences compared under every pair of avoid clauses.
RegSeqs ==
  { <<VR(<<"2">>, <<"1">>, <<R0>>, COMMA)>>, <<VR(<<"2">>, <<"1">>, <<R0, R0>>, COMMA)>>,
    <<VR(<<"2">>, <<"1">>, <<R0, R1>>, COMMA)>>, <<VR(<<"2">>, <<"1">>, <<R1, R0>>, COMMA)>> }

\* a token after avoid= that is shaped like a variable
V8 == <<"v", "8", "(", "4", ")">>

AvoidClauses ==
  { None, Some(<<>>), Some(<<R1>>), Some(<<R1, R1>>), Some(<<R1, R2>>), Some(<<R2, R1>>),
    Some(<<R2, V8, R1, R2>>) }

OneBlock(desc, toks, avoid) == <<Hdr(<<>>, desc, foo), Blk(<<"1">>, toks, avoid)>>

OneBlockFiles == {OneBlock(None, t, a) : t \in TokSeqs, a \in AvoidClauses}

\* Wide files: one block of 50 to 50 + MaxExtra variables v1(1) v2(1) ...,
\* compared with each other and with a block without variables.
MaxExtra == 1

WideToks(n) == [i \in 1..n |-> V(Decimal(i), <<"1">>)]

WideFiles ==
  {OneBlock(None, WideToks(n), None) : n \in VARS_ONLY_CAP..(VARS_ONLY_CAP + MaxExtra)}

NarrowFile == OneBlock(None, <<>>, None)

\* Multi-section files: the empty file and every sequence of at most
\* MaxFileLines of these lines that starts with a header.
FileLines ==
  { Hdr(<<>>, None, foo), Hdr(<<>>, None, bar),
    Blk(<<"1", "0">>, <<V(<<"2">>, <<"1">>)>>, None),
    Blk(<<"2">>, <<V(<<"2">>, <<"1">>)>>, Some(<<R1>>)) }

RECURSIVE SeqsUpTo(_, _)
SeqsUpTo(S, n) ==
  IF n = 0 THEN {<<>>}
  ELSE LET shorter == SeqsUpTo(S, n - 1)
       IN  shorter \cup {Append(q, x) : q \in shorter, x \in S}

SectionFiles ==
  {q \in SeqsUpTo(FileLines, MaxFileLines) : q = <<>> \/ q[1].k = "hdr"}

LeftFiles == OneBlockFiles \cup SectionFiles \cup WideFiles

\* The right files a left file is compared with: every multi-section file for
\* a multi-section file; for a one-block file, the one-block files with the
\* same avoid clause or the same tokens, under either header, and for the
\* token sequences of RegSeqs also each other under every avoid clause.
RightFiles(l) ==
  (IF l \in SectionFiles THEN SectionFiles ELSE {})
  \cup (IF l \in OneBlockFiles
        THEN {OneBlock(d, t, l[2].avoid) : d \in {None, Some(SCC)}, t \in TokSeqs}
             \cup {OneBlock(d, l[2].toks, a) : d \in {None, Some(SCC)}, a \in AvoidClauses}
             \cup (IF l[2].toks \in RegSeqs
                   THEN {OneBlock(None, t, a) : t \in RegSeqs, a \in AvoidClauses}
                   ELSE {})
        ELSE {})
  \cup (IF l \in WideFiles THEN WideFiles \cup {NarrowFile} ELSE {})
  \cup (IF l = NarrowFile THEN WideFiles ELSE {})

LeftPath ==
  [parent |-> <<>>,
   stem |-> DEBUG_ \o <<"m", "a", "s", "t", "e", "r">>,
   suffix |-> <<".", "t", "x", "t">>]

RightPath ==
  [parent |-> <<>>,
   stem |-> <<"i", "t", "e", "r", "a", "t", "i", "v", "e">>,
   suffix |-> <<".", "t", "x", "t">>]

(***************************************************************************)
(* State                                                                   *)
(***************************************************************************)
VARIABLES
  pc,           \* main: "start", "left_parsed", "right_parsed", "done", "error"
  left, right,  \* the lines of the two files main has read
  srcL, srcR,   \* what the two files were written from
  A, B,         \* main's two parsed dumps
  max_var_diffs,\* args.max_var_diffs_per_block, once compare_sections is called
  out,          \* the lines printed
  ret,          \* Some(exit status) once main has returned
  fed,          \* parse_file: the lines read so far, as written
  line,         \* parse_file: the line of the current iteration
  sections, cur_func, cur_desc, cur_header   \* parse_file's locals

main_vars == <<pc, left, right, srcL, srcR, A, B, max_var_diffs, out, ret>>

parse_vars == <<fed, line, sections, cur_func, cur_desc, cur_header>>

vars == <<main_vars, parse_vars>>

Init ==
  /\ pc = "start"
  /\ left = <<>> /\ right = <<>> /\ srcL = <<>> /\ srcR = <<>>
  /\ A = <<>> /\ B = <<>>
  /\ max_var_diffs = 0
  /\ out = <<>>
  /\ ret = None
  /\ fed = <<>>
  /\ line = <<>>
  /\ sections = ParserInit.sections
  /\ cur_func = ParserInit.cur_func
  /\ cur_desc = ParserInit.cur_desc
  /\ cur_header = ParserInit.cur_header

(***************************************************************************)
(* main                                                                    *)
(***************************************************************************)
\* A = parse_file(args.left)
ParseLeft ==
  /\ pc = "start"
  /\ \E src \in LeftFiles :
       /\ srcL' = src
       /\ left' = FileText(src)
       /\ A' = parse_file(FileText(src))
  /\ pc' = "left_parsed"
  /\ UNCHANGED <<right, srcR, B, max_var_diffs, out, ret, parse_vars>>

\* open(args.left) raises: main ends with the exception
LeftUnreadable ==
  /\ pc = "start"
  /\ pc' = "error"
  /\ UNCHANGED <<left, right, srcL, srcR, A, B, max_var_diffs, out, ret, parse_vars>>

\* B = parse_file(args.right)
ParseRight ==
  /\ pc = "left_parsed"
  /\ \E src \in RightFiles(srcL) :
       /\ srcR' = src
       /\ right' = FileText(src)
       /\ B' = parse_file(FileText(src))
  /\ pc' = "right_parsed"
  /\ UNCHANGED <<left, srcL, A, max_var_diffs, out, ret, parse_vars>>

\* faulty variant: the left file's sections are printed before the right
\* file is opened
RightUnreadable_reported ==
  /\ pc = "left_parsed"
  /\ pc' = "error"
  /\ out' = only_sections(file_label(LeftPath), sorted_set(DOMAIN A))
  /\ UNCHANGED <<left, right, srcL, srcR, A, B, max_var_diffs, ret, parse_vars>>

\* open(args.right) raises
RightUnreadable ==
  /\ pc = "left_parsed"
  /\ pc' = "error"
  /\ UNCHANGED <<left, right, srcL, srcR, A, B, max_var_diffs, out, ret, parse_vars>>

\* return compare_sections(args.left, A, args.right, B, ...)
Compare ==
  /\ pc = "right_parsed"
  /\ \E m \in 0..MaxCap :
       LET r == compare_sections(LeftPath, A, RightPath, B, m)
       IN  /\ max_var_diffs' = m
           /\ out' = r.out
           /\ ret' = Some(r.ret)
  /\ pc' = "done"
  /\ UNCHANGED <<left, right, srcL, srcR, A, B, parse_vars>>

Next == ParseLeft \/ LeftUnreadable \/ ParseRight \/ RightUnreadable \/ Compare

Spec == Init /\ [][Next]_vars

(***************************************************************************)
(* parse_file, one line at a time                                          *)
(***************************************************************************)
\* one iteration of "for raw in f" on line l
Read(l) ==
  LET st == ParseLine([sections |-> sections, cur_func |-> cur_func,
                       cur_desc |-> cur_desc, cur_header |-> cur_header],
                      Text(l))
  IN  /\ fed' = Append(fed, l)
      /\ line' = Text(l)
      /\ sections' = st.sections
      /\ cur_func' = st.cur_func
      /\ cur_desc' = st.cur_desc
      /\ cur_header' = st.cur_header
      /\ UNCHANGED main_vars

ReadLine == Len(fed) < MaxLines /\ \E l \in ParseLines : Read(l)

NextParse == ReadLine

SpecParse == Init /\ [][NextParse]_vars

ReadSectionLine == Len(fed) < MaxSectionLines /\ \E l \in SectionLines : Read(l)

NextSections == ReadSectionLine

SpecSections == Init /\ [][NextSections]_vars

(***************************************************************************)
(* Reading the printed report                                              *)
(***************************************************************************)
Kinds(seq, K) == SelectSeq(seq, LAMBDA e : e.k \in K)

NoDifferences == <<[k |-> "nodiff"]>>

\* the lines printed for function f, after its "=== f (...) ===" line
FuncPart(f) ==
  IF \E i \in 1..Len(out) : out[i].k = "func" /\ out[i].func = f
  THEN LET i == CHOOSE i \in 1..Len(out) : out[i].k = "func" /\ out[i].func = f
           rest == Drop(out, i)
           stops == {j \in 1..Len(rest) : rest[j].k = "func"}
       IN  IF stops = {} THEN rest
           ELSE Take(rest, (CHOOSE j \in stops : \A j2 \in stops : j <= j2) - 1)
  ELSE <<>>

\* the lines printed for block n of function f, after its "== bN ==" line
BlockPart(f, n) ==
  LET part == FuncPart(f)
  IN  IF \E i \in 1..Len(part) : part[i].k = "block" /\ part[i].bid = n
      THEN LET i == CHOOSE i \in 1..Len(part) : part[i].k = "block" /\ part[i].bid = n
               rest == Drop(part, i)
               stops == {j \in 1..Len(rest) : rest[j].k \in {"blank", "block"}}
           IN  IF stops = {} THEN rest
               ELSE Take(rest, (CHOOSE j \in stops : \A j2 \in stops : j <= j2) - 1)
      ELSE <<>>

CommonFuncs == (DOMAIN A) \cap (DOMAIN B)

CommonBlocks(f) == (DOMAIN A[f].blocks) \cap (DOMAIN B[f].blocks)

\* the variables of a common block whose (weight, registers) differ
ChangedVars(f, n) ==
  LET a == A[f].blocks[n].vars
      b == B[f].blocks[n].vars
  IN  {v \in (DOMAIN a) \cap (DOMAIN b) : a[v][1] # b[v][1] \/ a[v][2] # b[v][2]}

SameBlock(a, b) ==
  /\ DOMAIN a.vars = DOMAIN b.vars
  /\ \A v \in DOMAIN a.vars : a.vars[v][1] = b.vars[v][1] /\ a.vars[v][2] = b.vars[v][2]
  /\ a.avoid = b.avoid

SameBlocks ==
  /\ DOMAIN A = DOMAIN B
  /\ \A f \in DOMAIN A :
       /\ DOMAIN A[f].blocks = DOMAIN B[f].blocks
       /\ \A n \in DOMAIN A[f].blocks : SameBlock(A[f].blocks[n], B[f].blocks[n])

(***************************************************************************)
(* C1: compare_sections returns 0 exactly when both dumps have the same    *)
(* function names and, per function, the same block ids with equal block   *)
(* states (variables, weights, registers, avoid); otherwise it returns 1.  *)
(* A description or header line that differs does not make it return 1.    *)
(***************************************************************************)
C1_ReturnsZeroIffSameBlocks ==
  pc = "done" => ret = Some(IF SameBlocks THEN 0 ELSE 1)

C1_Witness ==
  /\ pc = "done"
  /\ ret = Some(0)
  /\ \E f \in CommonFuncs :
       /\ A[f].desc # B[f].desc
       /\ A[f].header_line # B[f].header_line
       /\ \E n \in DOMAIN A[f].blocks : A[f].blocks[n].avoid # <<>>

(***************************************************************************)
(* C2: a dump compared with an exact copy of itself prints no "only in"    *)
(* section and no function entry, and the exit status is 0.                *)
(***************************************************************************)
C2_SelfCompareIsEmpty ==
  (pc = "done" /\ left = right) => (out = NoDifferences /\ ret = Some(0))

C2_Witness ==
  /\ pc = "done"
  /\ left = right
  /\ out = NoDifferences
  /\ \E f \in DOMAIN A : \E n \in DOMAIN A[f].blocks :
       /\ Cardinality(DOMAIN A[f].blocks[n].vars) = 2
       /\ A[f].blocks[n].avoid # <<>>

(***************************************************************************)
(* C3: two dumps that differ only in the order of the registers inside a   *)
(* register list, or of the tokens of an avoid= clause, parse to the same  *)
(* model, and their comparison reports no difference.                      *)
(***************************************************************************)
IsPerm(x, y) ==
  /\ Len(x) = Len(y)
  /\ \A e \in Range(x) \cup Range(y) :
       Cardinality({i \in 1..Len(x) : x[i] = e}) = Cardinality({i \in 1..Len(y) : y[i] = e})

PermOpt(x, y) == (x = None /\ y = None) \/ (x # None /\ y # None /\ IsPerm(x[1], y[1]))

PermTok(t, u) == t.v = u.v /\ t.n = u.n /\ t.sep = u.sep /\ PermOpt(t.regs, u.regs)

PermLine(l, m) ==
  \/ l = m
  \/ /\ l.k = "blk" /\ m.k = "blk" /\ l.bid = m.bid
     /\ Len(l.toks) = Len(m.toks)
     /\ \A i \in 1..Len(l.toks) : PermTok(l.toks[i], m.toks[i])
     /\ PermOpt(l.avoid, m.avoid)

Permuted(x, y) == Len(x) = Len(y) /\ \A i \in 1..Len(x) : PermLine(x[i], y[i])

C3_OrderInsensitive ==
  (pc = "done" /\ Permuted(srcL, srcR)) => (A = B /\ out = NoDifferences /\ ret = Some(0))

C3_Witness ==
  /\ pc = "done"
  /\ Permuted(srcL, srcR)
  /\ Len(srcL) = 2 /\ srcL[2].k = "blk" /\ Len(srcL[2].toks) = 1
  /\ srcL[2].toks[1].regs # srcR[2].toks[1].regs
  /\ srcL[2].avoid # srcR[2].avoid
  /\ A = (foo :> Section(None, left[1],
                         1 :> BlockState(<<"v", "2">> :> <<1, <<R0, R1>>>>, <<R1, R2>>)))
  /\ out = NoDifferences

(***************************************************************************)
(* C4: when the two dumps differ only in the weight of one variable in one *)
(* block, the report has exactly one function entry, one block entry and   *)
(* one changed-variable entry showing both sides' (weight, registers), no  *)
(* "only in" entry and no avoid entry, and the exit status is 1.           *)
(* As claimed this fails when max_var_diffs_per_block is 0: the entry is   *)
(* then replaced by an elision line counting 1.                            *)
(***************************************************************************)
OneWeightDiffers(f, n, v) ==
  /\ DOMAIN A = DOMAIN B
  /\ \A g \in DOMAIN A :
       /\ DOMAIN A[g].blocks = DOMAIN B[g].blocks
       /\ \A m \in DOMAIN A[g].blocks :
            LET a == A[g].blocks[m]
                b == B[g].blocks[m]
            IN  /\ a.avoid = b.avoid
                /\ DOMAIN a.vars = DOMAIN b.vars
                /\ \A w \in DOMAIN a.vars :
                     /\ a.vars[w][2] = b.vars[w][2]
                     /\ (a.vars[w][1] # b.vars[w][1]) <=> (g = f /\ m = n /\ w = v)

WeightCases ==
  {c \in UNION {UNION {{<<f, n, v>> : v \in DOMAIN A[f].blocks[n].vars} :
                         n \in DOMAIN A[f].blocks} : f \in DOMAIN A} :
     OneWeightDiffers(c[1], c[2], c[3])}

OneChangedReport(c, changed_part) ==
  /\ Kinds(out, {"func", "block"}) =
       <<[k |-> "func", func |-> c[1],
          hdr |-> comparison_header(LeftPath, A[c[1]].desc, RightPath, B[c[1]].desc)],
         [k |-> "block", bid |-> c[2]]>>
  /\ Kinds(out, {"changed", "elided"}) = changed_part
  /\ Kinds(out, {"sections_only", "section", "blocks_only", "vars_only", "avoid", "nodiff"})
       = <<>>
  /\ ret = Some(1)

ChangedEntry(c) ==
  [k |-> "changed", v |-> c[3],
   a |-> A[c[1]].blocks[c[2]].vars[c[3]], b |-> B[c[1]].blocks[c[2]].vars[c[3]]]

\* the claim as stated
C4_OneWeight_AsClaimed ==
  pc = "done" => \A c \in WeightCases : OneChangedReport(c, <<ChangedEntry(c)>>)

\* the claim as amended: the entry is there when the cap is at least 1
C4_OneWeight ==
  pc = "done" =>
    \A c \in WeightCases :
      OneChangedReport(c, IF max_var_diffs >= 1 THEN <<ChangedEntry(c)>>
                          ELSE <<[k |-> "elided", count |-> 1]>>)

C4_Witness ==
  /\ pc = "done"
  /\ max_var_diffs >= 1
  /\ WeightCases # {}
  /\ \E i \in 1..Len(out) :
       out[i].k = "changed" /\ out[i].a[1] # out[i].b[1] /\ out[i].a[2] = <<R0, R1>>

(***************************************************************************)
(* C5: in a common block with N changed variables and a cap                *)
(* max_var_diffs_per_block >= 0, the report lists the first min(N, cap)    *)
(* changed variables in sorted order of their ids; when N > cap one        *)
(* elision line with the count N - cap follows them, otherwise none.       *)
(***************************************************************************)
C5_Elision ==
  pc = "done" =>
    \A f \in CommonFuncs : \A n \in CommonBlocks(f) :
      LET changed == ChangedVars(f, n)
          N == Cardinality(changed)
          part == Kinds(BlockPart(f, n), {"changed", "elided"})
          shown == Kinds(part, {"changed"})
          listed == {shown[i].v : i \in 1..Len(shown)}
      IN  /\ Len(shown) = IF N > max_var_diffs THEN max_var_diffs ELSE N
          /\ listed \subseteq changed
          /\ \A i, j \in 1..Len(shown) : i < j => StrLess(shown[i].v, shown[j].v)
          /\ \A v \in changed \ listed : \A w \in listed : StrLess(w, v)
          /\ part = shown \o (IF N > max_var_diffs
                              THEN <<[k |-> "elided", count |-> N - max_var_diffs]>>
                              ELSE <<>>)

C5_Witness ==
  /\ pc = "done"
  /\ max_var_diffs = 1
  /\ \E f \in CommonFuncs : \E n \in CommonBlocks(f) :
       /\ Cardinality(ChangedVars(f, n)) = 2
       /\ Kinds(BlockPart(f, n), {"changed", "elided"}) =
            <<[k |-> "changed", v |-> <<"v", "1", "0">>, a |-> <<1, <<>>>>, b |-> <<2, <<>>>>],
              [k |-> "elided", count |-> 1]>>

(***************************************************************************)
(* C10: registers are kept as a multiset and avoid tokens as a set: a      *)
(* variable with registers [R0,R0] on one side and [R0] on the other is    *)
(* reported as changed (listed, or counted by the elision line when the    *)
(* cap cuts it off), while avoid=R1 R1 against avoid=R1 is not reported.   *)
(***************************************************************************)
OneBlockPair ==
  /\ Len(srcL) = 2 /\ Len(srcR) = 2
  /\ srcL[1].k = "hdr" /\ srcR[1].k = "hdr" /\ srcL[1].func = srcR[1].func
  /\ srcL[1].lead = <<>> /\ srcR[1].lead = <<>>
  /\ srcL[2].k = "blk" /\ srcR[2].k = "blk" /\ srcL[2].bid = srcR[2].bid

\* v's last token in the block line has this comma-separated register list
LastRegs(l, v, regs) ==
  \E i \in 1..Len(l.toks) :
    /\ l.toks[i].v = v /\ l.toks[i].regs = Some(regs) /\ l.toks[i].sep = COMMA
    /\ \A j \in (i + 1)..Len(l.toks) : l.toks[j].v # v

ReportedChanged(f, n, v) ==
  LET part == BlockPart(f, n)
  IN  \/ \E i \in 1..Len(part) :
           /\ part[i].k = "changed" /\ part[i].v = v
           /\ part[i].a = A[f].blocks[n].vars[v] /\ part[i].b = B[f].blocks[n].vars[v]
      \/ /\ Len(Kinds(part, {"changed"})) = max_var_diffs
         /\ \E i \in 1..Len(part) : part[i].k = "elided" /\ part[i].count >= 1

C10_MultisetAndSet ==
  (pc = "done" /\ OneBlockPair) =>
    LET f == srcL[1].func
        n == int(srcL[2].bid)
    IN  /\ \A x \in {<<srcL, A, srcR, B>>, <<srcR, B, srcL, A>>} :
             \A v \in {x[1][2].toks[i].v : i \in 1..Len(x[1][2].toks)} :
               (LastRegs(x[1][2], v, <<R0, R0>>) /\ LastRegs(x[3][2], v, <<R0>>)) =>
                 /\ x[2][f].blocks[n].vars[<<"v">> \o v][2] = <<R0, R0>>
                 /\ x[4][f].blocks[n].vars[<<"v">> \o v][2] = <<R0>>
                 /\ ReportedChanged(f, n, <<"v">> \o v)
                 /\ ret = Some(1)
        /\ ({srcL[2].avoid, srcR[2].avoid} = {Some(<<R1, R1>>), Some(<<R1>>)}) =>
             /\ A[f].blocks[n].avoid = <<R1>>
             /\ B[f].blocks[n].avoid = <<R1>>
             /\ Kinds(out, {"avoid"}) = <<>>

C10_Witness ==
  /\ pc = "done"
  /\ OneBlockPair
  /\ LastRegs(srcL[2], <<"2">>, <<R0, R0>>) /\ LastRegs(srcR[2], <<"2">>, <<R0>>)
  /\ srcL[2].avoid = Some(<<R1, R1>>) /\ srcR[2].avoid = Some(<<R1>>)
  /\ Kinds(out, {"changed", "elided", "avoid"}) =
       <<[k |-> "changed", v |-> <<"v", "2">>, a |-> <<1, <<R0, R0>>>>, b |-> <<1, <<R0>>>>]>>

(***************************************************************************)
(* Reading the lines fed to parse_file                                     *)
(***************************************************************************)
IsHeader(l) == l.k = "hdr" /\ l.lead = <<>>

Marks(h) == {i \in 1..Len(h) : IsHeader(h[i]) \/ h[i].k = "end"}

Last(S) == CHOOSE i \in S : \A j \in S : j <= i

First(S) == CHOOSE i \in S : \A j \in S : i <= j

\* the function the lines h leave current: the one named by the last header,
\* unless a "Begin processing block" line came after it
Owner(h) ==
  IF Marks(h) = {} THEN None
  ELSE LET m == h[Last(Marks(h))]
       IN  IF m.k = "end" THEN None ELSE Some(m.func)

\* the functions the lines fed name in a header
Named == {fed[i].func : i \in {k \in 1..Len(fed) : IsHeader(fed[k])}}

Headers(f) == {i \in 1..Len(fed) : IsHeader(fed[i]) /\ fed[i].func = f}

\* the block lines that follow header i before the next header or section end
Occurrence(i) ==
  {k \in (i + 1)..Len(fed) :
     fed[k].k = "blk" /\ \A m \in (i + 1)..(k - 1) : m \notin Marks(fed)}

Ids(K) == {int(fed[k].bid) : k \in K}

\* the block lines of id n attributed to function f
BlockLines(f, n) ==
  {k \in 1..Len(fed) :
     /\ fed[k].k = "blk" /\ int(fed[k].bid) = n
     /\ Owner(SubSeq(fed, 1, k - 1)) = Some(f)}

\* the BlockState of each block line parsed on its own under a header
Decoded ==
  [l \in {x \in ParseLines : x.k = "blk"} |->
     parse_file(<<Text(Hdr(<<>>, None, foo)), Text(l)>>)[foo].blocks[int(l.bid)]]

Alone(l) == Decoded[l]

\* the text of each line
Written == [l \in ParseLines |-> Text(l)]

(***************************************************************************)
(* C6: two header lines for one function name, each followed by block ids  *)
(* the other does not have, give one Section whose blocks are the union of *)
(* both occurrences' blocks, also when a "Begin processing block" line or  *)
(* another function's header lies between the two.                         *)
(***************************************************************************)
C6_SectionAccumulation ==
  \A f \in Named :
    \A i, j \in Headers(f) :
      (i < j /\ Headers(f) = {i, j} /\ Ids(Occurrence(i)) \cap Ids(Occurrence(j)) = {}) =>
        /\ f \in DOMAIN sections
        /\ DOMAIN sections[f].blocks = Ids(Occurrence(i)) \cup Ids(Occurrence(j))
        /\ \A o \in {i, j} : \A n \in Ids(Occurrence(o)) :
             sections[f].blocks[n] =
               Alone(fed[Last({k \in Occurrence(o) : int(fed[k].bid) = n})])

C6_Witness ==
  /\ Len(fed) = 5
  /\ Headers(foo) = {1, 4}
  /\ fed[3].k = "end" \/ (fed[3].k = "hdr" /\ fed[3].func = bar)
  /\ Ids(Occurrence(1)) = {1} /\ Ids(Occurrence(4)) = {2}
  /\ sections[foo].blocks =
       (1 :> BlockState(<<"v", "2">> :> <<1, <<>>>>, <<R1>>)
        @@ 2 :> BlockState(<<"v", "1", "0">> :> <<2, <<R0>>>>, <<>>))

(***************************************************************************)
(* C7: a Section keeps the header text and the description of the first    *)
(* header line that names its function.  As claimed (the description, and  *)
(* also its absence, is the first header's) this fails: a Section opened   *)
(* without annotation takes the annotation of a later header.              *)
(***************************************************************************)
\* the claim as stated
C7_FirstSeen_AsClaimed ==
  /\ DOMAIN sections = Named
  /\ \A f \in Named :
       /\ sections[f].header_line = Written[fed[First(Headers(f))]]
       /\ sections[f].desc = fed[First(Headers(f))].desc

\* the headers of f that carry a non-empty annotation
Annotated(f) == {i \in Headers(f) : fed[i].desc # None /\ fed[i].desc[1] # <<>>}

\* the claim as amended: an absent first description is filled by the first
\* later header with a non-empty annotation
C7_FirstSeen ==
  /\ DOMAIN sections = Named
  /\ \A f \in Named :
       /\ sections[f].header_line = Written[fed[First(Headers(f))]]
       /\ sections[f].desc =
            IF fed[First(Headers(f))].desc # None THEN fed[First(Headers(f))].desc
            ELSE IF Annotated(f) = {} THEN None
            ELSE fed[First(Annotated(f))].desc

C7_Witness ==
  /\ Len(fed) >= 4
  /\ fed[1] = Hdr(<<>>, None, foo) /\ fed[2] = Hdr(<<>>, Some(<<>>), foo)
  /\ fed[3] = Hdr(<<>>, Some(SCC), foo) /\ fed[4] = Hdr(<<>>, Some(PASS2), foo)
  /\ sections[foo].desc = Some(SCC)
  /\ sections[foo].header_line = Text(fed[1])

(***************************************************************************)
(* C8: a block line read while no function is current (before the first    *)
(* header, or after "Begin processing block" and before the next header)   *)
(* leaves the model unchanged.                                             *)
(***************************************************************************)
Unattributed ==
  /\ Len(fed') = Len(fed) + 1
  /\ fed'[Len(fed')].k = "blk"
  /\ Owner(fed) = None

C8_UnattributedBlockIgnored ==
  [][Unattributed => (sections' = sections /\ cur_func' = None)]_vars

C8_Witness ==
  /\ Len(fed) >= 4
  /\ fed[1].k = "blk" /\ fed[2] = Hdr(<<>>, None, foo) /\ fed[3].k = "end"
  /\ fed[Len(fed)].k = "blk" /\ Owner(SubSeq(fed, 1, Len(fed) - 1)) = None
  /\ sections = (foo :> Section(None, Text(fed[2]), <<>>))

(***************************************************************************)
(* C9: when two block lines with the same id are attributed to the same    *)
(* function, the BlockState of that id is the decoding of the later line   *)
(* alone; nothing of the earlier line survives.                            *)
(***************************************************************************)
C9_LaterBlockOverwrites ==
  \A f \in Named :
    \A n \in Ids({k \in 1..Len(fed) : fed[k].k = "blk"}) :
      Cardinality(BlockLines(f, n)) >= 2 =>
        /\ f \in DOMAIN sections /\ n \in DOMAIN sections[f].blocks
        /\ sections[f].blocks[n] = Alone(fed[Last(BlockLines(f, n))])

C9_Witness ==
  /\ Len(fed) >= 3
  /\ fed[1] = Hdr(<<>>, None, foo)
  /\ fed[2] = Blk(<<"1">>, <<V(<<"2">>, <<"1">>)>>, Some(<<R1>>))
  /\ Last(BlockLines(foo, 1)) > 2
  /\ sections[foo].blocks[1] = BlockState(<<"v", "1", "0">> :> <<2, <<R0>>>>, <<>>)

(***************************************************************************)
(* C11: a variable token with an empty bracket, such as v8(4)[], is        *)
(* decoded into a variable with that weight and no registers, the record   *)
(* v8(4) gives; it is not discarded.                                       *)
(***************************************************************************)
\* the left file is a header and one block line
OneBlockLeft ==
  /\ Len(srcL) = 2
  /\ srcL[1].k = "hdr" /\ srcL[1].lead = <<>>
  /\ srcL[2].k = "blk"

C11_EmptyBracketDecoded ==
  OneBlockLeft =>
    \A i \in 1..Len(srcL[2].toks) :
      LET t == srcL[2].toks[i]
      IN  LastRegs(srcL[2], t.v, <<>>) =>
            LET vs == A[srcL[1].func].blocks[int(srcL[2].bid)].vars
            IN  /\ (<<"v">> \o t.v) \in DOMAIN vs
                /\ vs[<<"v">> \o t.v] = <<int(t.n), <<>>>>

(***************************************************************************)
(* C12: when a block has more than 50 variables on one side only, the      *)
(* report lists the first 50 of them in sorted order and ends the list     *)
(* with a suffix; with 50 or fewer all are listed and there is no suffix.  *)
(* As claimed the suffix states the number left out; the suffix the code   *)
(* prints is " ..." without a number.                                      *)
(***************************************************************************)
Contains(s, sub) ==
  \E i \in 0..(Len(s) - Len(sub)) : SubSeq(s, i + 1, i + Len(sub)) = sub

\* the "vars only in" line of block n of f for the side x against y is right
\* up to its suffix, which Suffix(N, suffix) judges
OnlyVarsLine(f, n, x, y, label, Suffix(_, _)) ==
  LET only == (DOMAIN x[f].blocks[n].vars) \ (DOMAIN y[f].blocks[n].vars)
      N == Cardinality(only)
      es == SelectSeq(BlockPart(f, n), LAMBDA e : e.k = "vars_only" /\ e.label = label)
  IN  IF only = {} THEN es = <<>>
      ELSE /\ Len(es) = 1
           /\ LET listed == es[1].vars
              IN  /\ Len(listed) = IF N > 50 THEN 50 ELSE N
                  /\ Range(listed) \subseteq only
                  /\ \A i, j \in 1..Len(listed) : i < j => StrLess(listed[i], listed[j])
                  /\ \A v \in only \ Range(listed) :
                       \A i \in 1..Len(listed) : StrLess(listed[i], v)
                  /\ Suffix(N, es[1].suffix)

OnlyVarsLines(Suffix(_, _)) ==
  \A f \in CommonFuncs : \A n \in CommonBlocks(f) :
    /\ OnlyVarsLine(f, n, A, B, file_label(LeftPath), Suffix)
    /\ OnlyVarsLine(f, n, B, A, file_label(RightPath), Suffix)

CountSuffix(N, suffix) ==
  IF N > 50 THEN Contains(suffix, Decimal(N - 50)) ELSE suffix = <<>>

PlainSuffix(N, suffix) ==
  suffix = IF N > 50 THEN <<" ", ".", ".", ".">> ELSE <<>>

\* the claim as stated
C12_OnlyVarsCap_AsClaimed == pc = "done" => OnlyVarsLines(CountSuffix)

\* the claim as amended: the suffix is " ..." and carries no number
C12_OnlyVarsCap == pc = "done" => OnlyVarsLines(PlainSuffix)

C12_Witness ==
  /\ pc = "done"
  /\ srcL \in WideFiles /\ Len(srcL[2].toks) = 51 /\ srcR = NarrowFile
  /\ \E i \in 1..Len(out) :
       /\ out[i].k = "vars_only"
       /\ Len(out[i].vars) = 50
       /\ out[i].vars[1] = <<"v", "1">> /\ out[i].vars[2] = <<"v", "1", "0">>
       /\ out[i].vars[50] = <<"v", "8">>
       /\ out[i].suffix = <<" ", ".", ".", ".">>

(***************************************************************************)
(* C13: a function of both dumps has an entry in the report exactly when   *)
(* there is a difference beneath it (a block or a variable on one side     *)
(* only, a changed variable, a changed avoid set); a function of one dump  *)
(* only is listed once under "Sections only in" that dump and has no       *)
(* block or variable entries.                                              *)
(***************************************************************************)
FuncDiffers(f) ==
  \/ DOMAIN A[f].blocks # DOMAIN B[f].blocks
  \/ \E n \in CommonBlocks(f) : ~SameBlock(A[f].blocks[n], B[f].blocks[n])

FuncEntries(f) == SelectSeq(out, LAMBDA e : e.k = "func" /\ e.func = f)

\* f is listed once, under the "Sections only in <label>:" line
ListedOnceUnder(f, label) ==
  LET at == {i \in 1..Len(out) : out[i].k = "section" /\ out[i].name = f}
      heads == {j \in 1..Len(out) : out[j].k = "sections_only"}
  IN  /\ Cardinality(at) = 1
      /\ \A i \in at :
           LET before == {j \in heads : j < i}
           IN  before # {} /\ out[Last(before)].label = label

\* block and variable lines stand beneath a function's entry only
BeneathFuncOnly ==
  \A i \in 1..Len(out) :
    out[i].k \in {"blocks_only", "block", "vars_only", "changed", "elided", "avoid"} =>
      \E j \in 1..(i - 1) : out[j].k = "func" /\ out[j].func \in CommonFuncs

C13_FunctionEntries ==
  pc = "done" =>
    /\ \A f \in CommonFuncs :
         /\ Len(FuncEntries(f)) = IF FuncDiffers(f) THEN 1 ELSE 0
         /\ FuncDiffers(f) => FuncPart(f) # <<[k |-> "blank"]>>
         /\ \A i \in 1..Len(out) : out[i].k = "section" => out[i].name # f
    /\ \A f \in (DOMAIN A) \ (DOMAIN B) :
         ListedOnceUnder(f, file_label(LeftPath)) /\ FuncEntries(f) = <<>>
    /\ \A f \in (DOMAIN B) \ (DOMAIN A) :
         ListedOnceUnder(f, file_label(RightPath)) /\ FuncEntries(f) = <<>>
    /\ BeneathFuncOnly

C13_Witness ==
  /\ pc = "done"
  /\ DOMAIN A = {foo, bar} /\ DOMAIN B = {foo}
  /\ DOMAIN A[bar].blocks = {2}
  /\ out = <<[k |-> "sections_only", label |-> file_label(LeftPath)],
             [k |-> "section", name |-> bar], [k |-> "blank"]>>

(***************************************************************************)
(* C14: a variable written without brackets is stored with no registers    *)
(* and is a present variable: against a block that lacks it, it is         *)
(* reported as only on its side; against the same variable with at least   *)
(* one register, it is reported as changed (listed, or counted by the      *)
(* elision line when the cap cuts it off).                                 *)
(***************************************************************************)
\* v's last token in the block line has no brackets; its weight is w
LastPlain(l, v, w) ==
  \E i \in 1..Len(l.toks) :
    /\ l.toks[i].v = v /\ l.toks[i].regs = None /\ int(l.toks[i].n) = w
    /\ \A j \in (i + 1)..Len(l.toks) : l.toks[j].v # v

Lacks(l, v) == \A i \in 1..Len(l.toks) : l.toks[i].v # v

ReportedOnly(f, n, v, label) ==
  \E i \in 1..Len(BlockPart(f, n)) :
    LET e == BlockPart(f, n)[i]
    IN  /\ e.k = "vars_only" /\ e.label = label
        /\ v \in Range(e.vars) \/ (Len(e.vars) = 50 /\ e.suffix # <<>>)

ReadsHeader == Len(fed') = Len(fed) + 1 /\ fed'[Len(fed')].k = "hdr"

\* the step opens or re-opens the section of the function the line names
Opens ==
  LET f == fed'[Len(fed')].func
  IN  /\ cur_func' = Some(f)
      /\ cur_desc' = fed'[Len(fed')].desc
      /\ DOMAIN sections' = (DOMAIN sections) \cup {f}
      /\ \A g \in DOMAIN sections : sections'[g].blocks = sections[g].blocks
      /\ f \notin DOMAIN sections => sections'[f].blocks = <<>>

\* the claim as stated
C15_IndentedHeader_AsClaimed == [][ReadsHeader => Opens]_vars

\* the claim as amended: only a header that starts the line opens a section
C15_IndentedHeader ==
  [][ReadsHeader =>
       IF fed'[Len(fed')].lead = <<>> THEN Opens
       ELSE /\ sections' = sections
            /\ cur_func' = cur_func /\ cur_desc' = cur_desc /\ cur_header' = cur_header]_vars

C15_Witness ==
  /\ Len(fed) = 3
  /\ fed[1] = Hdr(<<>>, None, foo)
  /\ fed[2].k = "hdr" /\ fed[2].lead # <<>> /\ fed[2].func = bar
  /\ fed[3].k = "blk"
  /\ DOMAIN sections = {foo} /\ DOMAIN sections[foo].blocks = {int(fed[3].bid)}
  /\ cur_func = Some(foo)

(***************************************************************************)
(* C16: both files are read and parsed before any report line is printed:  *)
(* when the left or the right file cannot be read, the run ends with the   *)
(* error and nothing has been printed, neither a partial report nor        *)
(* "No differences found.".                                                *)
(***************************************************************************)
C16_NoReportOnError ==
  /\ pc = "error" => (out = <<>> /\ ret = None)
  /\ pc \in {"start", "left_parsed", "right_parsed"} => out = <<>>

C16_Witness ==
  /\ pc = "error"
  /\ DOMAIN A = {foo, bar} /\ srcR = <<>> /\ B = <<>>
  /\ out = <<>> /\ ret = None

(***************************************************************************)
(* C17: every list of siblings in the report is in ascending order without *)
(* duplicates: function names (in the "only in" lists and the function     *)
(* entries) by their text, block ids (in the "only in" lists and the block *)
(* entries) by their number, so b2 before b10, variable ids by their text. *)
(***************************************************************************)
Ascending(q, Less(_, _)) == \A i \in 1..(Len(q) - 1) : Less(q[i], q[i + 1])

IntLess(a, b) == a < b

FuncLess(e, g) == StrLess(e.func, g.func)

BlockLess(e, g) == e.bid < g.bid

VarLess(e, g) == StrLess(e.v, g.v)

C17_SortedSiblings ==
  pc = "done" =>
    /\ \A i \in 1..(Len(out) - 1) :
         (out[i].k = "section" /\ out[i + 1].k = "section") =>
           StrLess(out[i].name, out[i + 1].name)
    /\ Ascending(Kinds(out, {"func"}), FuncLess)
    /\ \A i \in 1..Len(out) :
         /\ out[i].k = "blocks_only" => Ascending(out[i].bids, IntLess)
         /\ out[i].k = "vars_only" => Ascending(out[i].vars, StrLess)
    /\ \A f \in CommonFuncs :
         /\ Ascending(Kinds(FuncPart(f), {"block"}), BlockLess)
         /\ \A n \in CommonBlocks(f) :
              Ascending(Kinds(BlockPart(f, n), {"changed"}), VarLess)

C17_Witness ==
  /\ pc = "done"
  /\ Len(srcL) = 3 /\ srcL[2].k = "blk" /\ srcL[3].k = "blk"
  /\ int(srcL[2].bid) = 10 /\ int(srcL[3].bid) = 2
  /\ Kinds(out, {"blocks_only"}) =
       <<[k |-> "blocks_only", label |-> file_label(LeftPath), bids |-> <<2, 10>>]>>

(***************************************************************************)
(* C18: after any lines, the blocks of function f contain block id n       *)
(* exactly when a block line with id n occurs whose most recent preceding  *)
(* header or "Begin processing block" line is a header naming f: a header  *)
(* read while another section is open moves the attribution to the         *)
(* function it names, and an unrecognised line changes neither the current *)
(* function nor the model.                                                 *)
(***************************************************************************)
\* a line that is no header, no end of section and no block line to the code
Unrecognised(l) == l.k = "other" \/ (l.k = "hdr" /\ l.lead # <<>>)

FuncsWritten == {fed[i].func : i \in {k \in 1..Len(fed) : fed[k].k = "hdr"}}

Attributed ==
  /\ DOMAIN sections \subseteq FuncsWritten
  /\ \A f \in FuncsWritten :
       \A n \in Ids({k \in 1..Len(fed) : fed[k].k = "blk"}) :
         (f \in DOMAIN sections /\ n \in DOMAIN sections[f].blocks)
           <=> BlockLines(f, n) # {}
  /\ cur_func = Owner(fed)

C18_Attribution ==
  /\ []Attributed
  /\ [][(Len(fed') = Len(fed) + 1 /\ Unrecognised(fed'[Len(fed')])) =>
          (sections' = sections /\ cur_func' = cur_func)]_vars

C18_Witness ==
  /\ Len(fed) = 4
  /\ fed[1] = Hdr(<<>>, None, foo) /\ fed[2] = Hdr(<<>>, None, bar)
  /\ fed[3].k = "blk" /\ fed[4].k = "other"
  /\ sections[foo].blocks = <<>>
  /\ DOMAIN sections[bar].blocks = {int(fed[3].bid)}
  /\ cur_func = Some(bar)

(***************************************************************************)
(* C19: when a block body has an avoid= clause followed by at least one    *)
(* token, every token from the clause to the end of the line becomes an    *)
(* avoid token (sorted, without duplicates) and none is decoded as a       *)
(* variable, even one shaped like v8(4); the variables are those of the    *)
(* text before the clause.                                                 *)
(***************************************************************************)
\* checked where the left file has just been parsed
C19_AvoidClauseTokens ==
  (pc = "left_parsed" /\ OneBlockLeft
     /\ srcL[2].avoid # None /\ srcL[2].avoid # Some(<<>>)) =>
    LET clause == srcL[2].avoid[1]
        f == srcL[1].func
        n == int(srcL[2].bid)
        b == A[f].blocks[n]
        plain == <<srcL[1], Blk(srcL[2].bid, srcL[2].toks, None)>>
    IN  /\ Range(b.avoid) = Range(clause)
        /\ Ascending(b.avoid, StrLess)
        /\ b.vars = parse_file(FileText(plain))[f].blocks[n].vars
        /\ \A i \in 1..Len(clause) :
             VAR_RE(clause[i]) # None => VAR_RE(clause[i])[1].v \notin DOMAIN b.vars

C19_Witness ==
  /\ pc = "left_parsed"
  /\ srcL = OneBlock(None, <<V(<<"2">>, <<"1">>)>>, Some(<<R2, V8, R1, R2>>))
  /\ A[foo].blocks[1] = BlockState(<<"v", "2">> :> <<1, <<>>>>, <<R1, R2, V8>>)

====
